---- MODULE Spec2Model ----
(***************************************************************************)
(* Model of the news pipeline of ai-model/nepali_agricultural_news_service *)
(* (run_news_pipeline and the repository operations it calls).             *)
(*                                                                         *)
(* Time is counted in whole days.  The store is a PostgreSQL table reached *)
(* through psycopg2: a connection opens a transaction at its first         *)
(* statement, a rejected statement leaves that transaction aborted (every  *)
(* later statement on the connection is rejected too), and only            *)
(* conn.commit() makes the transaction's writes visible in the table.      *)
(***************************************************************************)
EXTENDS Integers, Sequences, FiniteSets, TLC

VARIABLES
    now,        \* datetime.now(), in days
    db,         \* committed rows of table news
    tx,         \* rows as seen through the run's connection (its transaction)
    txStatus,   \* "none" | "idle" | "intrans" | "aborted"
    conn,       \* the run's connection: "none" | "open" | "closed" | "lost"
    opened,     \* connections psycopg2.connect has opened for this run
    pc,         \* position of run_news_pipeline
    setup,      \* how setup_database() ended in this run: "unset" | "ok" | "unreachable"
    classifier, \* NewsCategorizer.classifier: "unset" | "loaded" | "none"
    load_failed,\* a NewsCategorizer() of this process has failed to load the model
    site,       \* index into TARGET_URLS of the next source to scrape
    articles,   \* the list scrape_all_sites builds
    idx,        \* index into articles of the next candidate to process
    stats,      \* stats dict of the run
    cutoff_date,\* {cutoff_date} of deactivate_old_articles in this run, {} before it ran
    fetched,    \* per source scraped in this run: was the fetch answered, how many candidates
    log,        \* steps the run has taken, in order
    last,       \* what the last upsert_article call of the run did
    sighted,    \* urls whose upsert was executed by the store in this run
    call,       \* a call of one operation on its own: [fn |-> its name, ...its arguments]
    ret,        \* {what that call returned}, {} before it did
    runs        \* pipeline runs that overlap on the store, each on its own connection

vars == <<now, db, tx, txStatus, conn, opened, pc, setup, classifier, load_failed, site, articles, idx,
          stats, cutoff_date, fetched, log, last, sighted, call, ret, runs>>

----------------------------------------------------------------------------
(* Bounds of the model *)

MaxClock == 1        \* the clock runs over 0..MaxClock
MaxLinkless == 1     \* containers without a resolvable link on one page

(* Program constants *)

RetentionDays == 7   \* timedelta(days=7)
TitleMax == 500      \* title VARCHAR(500)
MaxItems == 10       \* news_items[:10]
DefaultLimit == 10   \* request.args.get('limit', 10)
Threshold == 30      \* best_score > 0.3, in hundredths
RetryTotal == 3      \* Retry(total=3, ...)

NULL == "null"

----------------------------------------------------------------------------
(* Configuration *)

TARGET_URLS == <<"Nepal Agricultural Research Council", "Krishi Daily",
                 "Nepal Agricultural Market", "Ministry of Agriculture">>

CATEGORIES == {"crop_pests", "market_prices", "weather_advisory", "policy_update",
               "technology_innovation", "fertilizer_seeds", "irrigation_water",
               "livestock_dairy", "organic_farming", "uncategorized"}

(* category_descriptions: the label the classifier is offered for each key *)
CategoryDescriptions ==
    [c \in {"crop_pests", "market_prices", "weather_advisory", "policy_update",
             "technology_innovation", "fertilizer_seeds", "irrigation_water",
             "livestock_dairy", "organic_farming"} |->
        CASE c = "crop_pests"            -> "Information about crop diseases, pests"
          [] c = "market_prices"         -> "Agricultural market prices"
          [] c = "weather_advisory"      -> "Weather forecasts"
          [] c = "policy_update"         -> "Government policies"
          [] c = "technology_innovation" -> "New agricultural technologies"
          [] c = "fertilizer_seeds"      -> "Information about fertilizers, seeds"
          [] c = "irrigation_water"      -> "Irrigation systems"
          [] c = "livestock_dairy"       -> "Livestock farming"
          [] c = "organic_farming"       -> "Organic farming practices"]

----------------------------------------------------------------------------
(* What the scraped pages can hold.  An article container resolves to one  *)
(* of three texts; the third has a title longer than the title column.     *)

Texts == { [title |-> "t1",    content |-> "",   image_url |-> NULL],
           [title |-> "t2",    content |-> "c2", image_url |-> "i2"],
           [title |-> "tlong", content |-> "c2", image_url |-> NULL] }

StrLen(s) == IF s = "tlong" THEN TitleMax + 1 ELSE 2

(* The article links each source's page can hold. *)
SiteUrls == <<{"u1"}, {"u2"}, {}, {}>>

(* The publish dates a container of the url can resolve to at time t: the  *)
(* page of u1 shows a date, exactly RetentionDays before day 0, or none;   *)
(* the page of u2 shows none.  Without a date the scraper falls back to    *)
(* datetime.now().                                                         *)
PageDates(url, t) == IF url = "u1" THEN {0 - RetentionDays, t} ELSE {t}

Candidates(s, t) ==
    { [title |-> x.title, content |-> x.content, image_url |-> x.image_url,
       source |-> TARGET_URLS[s], publish_date |-> l[2], url |-> l[1]] :
         x \in Texts, l \in UNION {{<<u, d>> : d \in PageDates(u, t)} : u \in SiteUrls[s]} }

RECURSIVE SeqsUpTo(_, _)
SeqsUpTo(S, n) ==
    IF n = 0 THEN {<<>>}
    ELSE LET shorter == SeqsUpTo(S, n - 1)
         IN  shorter \cup {Append(q, x) : q \in {r \in shorter : Len(r) = n - 1}, x \in S}

Min(a, b) == IF a < b THEN a ELSE b

(* What item.find('a') finds in a container: no anchor, an anchor without *)
(* an href attribute, an anchor whose href is empty, or an anchor with a   *)
(* link.                                                                   *)
Links == {"no anchor", "no href", "empty href", "href"}

(* The containers a page of source s can hold at time t: item is what the  *)
(* scraper reads from the container, item.url what urljoin makes of its    *)
(* href when it has one.                                                   *)
Containers(s, t) ==
    {[link |-> "href", item |-> c] : c \in Candidates(s, t)} \cup
    {[link |-> k,
      item |-> [title |-> "t1", content |-> "", image_url |-> NULL,
                source |-> TARGET_URLS[s], publish_date |-> t, url |-> NULL]] :
         k \in Links \ {"href"}}

(* urljoin(base_url, link_elem['href']) if link_elem and                   *)
(* link_elem.get('href') else None                                         *)
extract_url(c) == IF c.link = "href" THEN c.item.url ELSE NULL

(* a scraper without "if not url: continue" *)
RECURSIVE extract_items_KeepsAll(_)
extract_items_KeepsAll(q) ==
    IF q = <<>> THEN <<>>
    ELSE <<[Head(q).item EXCEPT !.url = extract_url(Head(q))]>>
            \o extract_items_KeepsAll(Tail(q))

(* The loop over the containers of a page: a container without a url is    *)
(* skipped, every other one appends its candidate.                         *)
RECURSIVE extract_items(_)
extract_items(q) ==
    IF q = <<>> THEN <<>>
    ELSE IF extract_url(Head(q)) = NULL THEN extract_items(Tail(q))
    ELSE <<[Head(q).item EXCEPT !.url = extract_url(Head(q))]>>
            \o extract_items(Tail(q))

(* The pages a source can serve at time t: each of its article links in at  *)
(* most one container, and at most MaxLinkless containers without a link.   *)
LinklessPages(s, t) ==
    {q \in SeqsUpTo(Containers(s, t), Cardinality(SiteUrls[s]) + MaxLinkless) :
        /\ \A i, j \in 1..Len(q) :
              (q[i].link = "href" /\ q[j].link = "href" /\ q[i].item.url = q[j].item.url)
                  => i = j
        /\ Cardinality({i \in 1..Len(q) : q[i].link # "href"}) <= MaxLinkless}

(* The pages the sources serve to the runs of the pipeline: those whose     *)
(* containers all have a link (a container without one leaves nothing in    *)
(* what the scraper returns, see extract_items).                            *)
Pages(s, t) ==
    {q \in SeqsUpTo({c \in Containers(s, t) : c.link = "href"}, Cardinality(SiteUrls[s])) :
        \A i, j \in 1..Len(q) : q[i].item.url = q[j].item.url => i = j}

(* One source's scrape: the fetch fails (the scraper's outer except returns *)
(* the empty list) or the candidates of the page's first MaxItems           *)
(* containers are returned.                                                 *)
FetchOutcomes(s, t) ==
    {[ok |-> FALSE, items |-> <<>>]} \cup
    {[ok |-> TRUE, items |-> extract_items(SubSeq(q, 1, Min(Len(q), MaxItems)))] :
        q \in Pages(s, t)}

----------------------------------------------------------------------------
(* NewsCategorizer *)

(* What the loaded classifier answers for a text: its top label and score. *)
ClassifierOutput(title, content) ==
    CASE title = "t1" -> [label |-> CategoryDescriptions["crop_pests"], score |-> 90]
      [] title = "t2" -> [label |-> CategoryDescriptions["market_prices"], score |-> 25]
      [] OTHER        -> [label |-> "entailment", score |-> 90]

(* The classification call of line 422 raising instead of answering. *)
ClassifierError == [label |-> NULL, score |-> 0, raised |-> TRUE]

(* the description returned in place of its key *)
MapLabel_ReturnsLabel(best_label, best_score) ==
    LET hit == {c \in DOMAIN CategoryDescriptions : CategoryDescriptions[c] = best_label}
    IN  IF hit # {}
        THEN IF best_score > Threshold THEN best_label ELSE "uncategorized"
        ELSE "uncategorized"

(* the comparison written "best_score >= 0.3" *)
MapLabel_AtLeast(best_label, best_score) ==
    LET hit == {c \in DOMAIN CategoryDescriptions : CategoryDescriptions[c] = best_label}
    IN  IF hit # {}
        THEN IF best_score >= Threshold THEN CHOOSE c \in hit : TRUE ELSE "uncategorized"
        ELSE "uncategorized"

(* lines 425-437: the top label is looked up among the descriptions and   *)
(* its key returned when the top score is above the threshold              *)
MapLabel(best_label, best_score) ==
    LET hit == {c \in DOMAIN CategoryDescriptions : CategoryDescriptions[c] = best_label}
    IN  IF hit # {}
        THEN IF best_score > Threshold THEN CHOOSE c \in hit : TRUE ELSE "uncategorized"
        ELSE "uncategorized"

(* "if not self.classifier: return": the classification call of line 422  *)
(* is reached only with a loaded classifier                                *)
Classifies(cls) == cls = "loaded"

(* categorize_article that loads the model on demand when it has none *)
categorize_result_Reloads(cls, result) ==
    IF "raised" \in DOMAIN result THEN "uncategorized"
    ELSE MapLabel(result.label, result.score)

(* categorize_article, given what self.classifier answers for the text or *)
(* that it raises (except Exception: return "uncategorized")              *)
categorize_result(cls, result) ==
    IF cls # "loaded" THEN "uncategorized"
    ELSE IF "raised" \in DOMAIN result THEN "uncategorized"
    ELSE MapLabel(result.label, result.score)

categorize_article(cls, title, content) ==
    categorize_result(cls, ClassifierOutput(title, content))

----------------------------------------------------------------------------
(* Table news and the statements run against it *)

(* The column constraints of CREATE TABLE news that a candidate can break. *)
ColumnsFit(a) == StrLen(a.title) <= TitleMax

(* url UNIQUE *)
UrlFree(rows, u) == \A r \in rows : r.url # u

(* uuid.uuid4(): an identifier no row holds *)
NewId(rows) == CHOOSE i \in 1..(Cardinality(rows) + 1) : \A r \in rows : r.id # i

SelectByUrl(rows, u) == {r \in rows : r.url = u}

(* the UPDATE with "created_at = NOW()" added to its SET list *)
UpdateRow_Recreates(r, a, category, t) ==
    [r EXCEPT !.title = a.title, !.content = a.content, !.image_url = a.image_url,
              !.source = a.source, !.publish_date = a.publish_date,
              !.category = category, !.is_active = TRUE, !.updated_at = t,
              !.created_at = t]

(* the UPDATE without "title = %s" *)
UpdateRow_KeepsTitle(r, a, category, t) ==
    [r EXCEPT !.content = a.content, !.image_url = a.image_url,
              !.source = a.source, !.publish_date = a.publish_date,
              !.category = category, !.is_active = TRUE, !.updated_at = t]

(* the UPDATE without "is_active = TRUE" *)
UpdateRow_KeepsFlag(r, a, category, t) ==
    [r EXCEPT !.title = a.title, !.content = a.content, !.image_url = a.image_url,
              !.source = a.source, !.publish_date = a.publish_date,
              !.category = category, !.updated_at = t]

UpdateRow(r, a, category, t) ==
    [r EXCEPT !.title = a.title, !.content = a.content, !.image_url = a.image_url,
              !.source = a.source, !.publish_date = a.publish_date,
              !.category = category, !.is_active = TRUE, !.updated_at = t]

InsertRow(rows, a, category, t) ==
    [id |-> NewId(rows), title |-> a.title, content |-> a.content,
     image_url |-> a.image_url, source |-> a.source, publish_date |-> a.publish_date,
     category |-> category, url |-> a.url, is_active |-> TRUE,
     created_at |-> t, updated_at |-> t]

(* upsert_article with "return True" on the update path as well *)
upsert_article_ReportsNew(rows, st, a, category, t) ==
    IF st = "aborted"
    THEN [rows |-> rows, st |-> "aborted", isNew |-> FALSE, did |-> "error"]
    ELSE IF SelectByUrl(rows, a.url) # {}
    THEN IF ColumnsFit(a)
         THEN [rows |-> {IF r.url = a.url THEN UpdateRow(r, a, category, t) ELSE r : r \in rows},
               st |-> "intrans", isNew |-> TRUE, did |-> "update"]
         ELSE [rows |-> rows, st |-> "aborted", isNew |-> FALSE, did |-> "error"]
    ELSE IF ColumnsFit(a) /\ UrlFree(rows, a.url)
         THEN [rows |-> rows \cup {InsertRow(rows, a, category, t)},
               st |-> "intrans", isNew |-> TRUE, did |-> "insert"]
         ELSE [rows |-> rows, st |-> "aborted", isNew |-> FALSE, did |-> "error"]

(* upsert_article on a connection whose transaction is in state st and     *)
(* sees rows.  A rejected statement raises inside the try: the except      *)
(* returns False, and the transaction stays aborted.                       *)
upsert_article(rows, st, a, category, t) ==
    IF st = "aborted"
    THEN [rows |-> rows, st |-> "aborted", isNew |-> FALSE, did |-> "error"]
    ELSE IF SelectByUrl(rows, a.url) # {}
    THEN IF ColumnsFit(a)
         THEN [rows |-> {IF r.url = a.url THEN UpdateRow(r, a, category, t) ELSE r : r \in rows},
               st |-> "intrans", isNew |-> FALSE, did |-> "update"]
         ELSE [rows |-> rows, st |-> "aborted", isNew |-> FALSE, did |-> "error"]
    ELSE IF ColumnsFit(a) /\ UrlFree(rows, a.url)
         THEN [rows |-> rows \cup {InsertRow(rows, a, category, t)},
               st |-> "intrans", isNew |-> TRUE, did |-> "insert"]
         ELSE [rows |-> rows, st |-> "aborted", isNew |-> FALSE, did |-> "error"]

(* the UPDATE with "publish_date > %s" *)
IsStale_Reversed(r, t) == r.publish_date > t - RetentionDays /\ r.is_active

(* the UPDATE with "publish_date <= %s" *)
IsStale_AtCutoff(r, t) == r.publish_date <= t - RetentionDays /\ r.is_active

(* The UPDATE of deactivate_old_articles *)
IsStale(r, t) == r.publish_date < t - RetentionDays /\ r.is_active

(* the statement written with SET is_active = NOT is_active and no test of *)
(* the flag                                                                *)
DeactivateRows_Toggles(rows, t) ==
    {IF r.publish_date < t - RetentionDays
     THEN [r EXCEPT !.is_active = ~r.is_active, !.updated_at = t] ELSE r : r \in rows}

(* the statement written as DELETE FROM news WHERE ... *)
DeactivateRows_Deletes(rows, t) == {r \in rows : ~IsStale(r, t)}

DeactivateRows(rows, t) ==
    {IF IsStale(r, t) THEN [r EXCEPT !.is_active = FALSE, !.updated_at = t] ELSE r : r \in rows}

deactivate_old_articles(rows, st, t) ==
    IF st = "aborted"
    THEN [rows |-> rows, st |-> "aborted"]
    ELSE [rows |-> DeactivateRows(rows, t), st |-> "intrans"]

----------------------------------------------------------------------------
(* run_news_pipeline *)

NoCall  == [fn |-> "none"]
NoStats == [new_articles |-> 0, updated_articles |-> 0, errors |-> 0]
NoLast  == [did |-> "none", url |-> NULL, isNew |-> FALSE, classified |-> FALSE]

Ended   == {"idle", "done", "failed", "crashed"}
Running == {"setup", "categorizer", "scrape", "check", "connect", "loop",
            "deactivate", "summary", "commit"}

(* no run of the pipeline is under way *)
NoRun ==
    /\ tx = {}
    /\ txStatus = "none"
    /\ conn = "none"
    /\ opened = 0
    /\ pc = "idle"
    /\ setup = "unset"
    /\ site = 1
    /\ articles = <<>>
    /\ idx = 1
    /\ stats = NoStats
    /\ cutoff_date = {}
    /\ fetched = <<>>
    /\ log = <<>>
    /\ last = NoLast
    /\ sighted = {}
    /\ runs = <<>>

Init ==
    /\ now = 0
    /\ db = {}
    /\ classifier = "unset"
    /\ load_failed = FALSE
    /\ NoRun
    /\ call = NoCall
    /\ ret = {}

(* The scheduler (or the command line) calls run_news_pipeline. *)
StartRun ==
    /\ pc \in Ended
    /\ pc' = "setup"
    /\ setup' = "unset"
    /\ cutoff_date' = {}
    /\ stats' = NoStats
    /\ tx' = {}
    /\ txStatus' = "none"
    /\ conn' = "none"
    /\ opened' = 0
    /\ classifier' = "unset"
    /\ site' = 1
    /\ articles' = <<>>
    /\ idx' = 1
    /\ fetched' = <<>>
    /\ log' = <<>>
    /\ last' = NoLast
    /\ sighted' = {}
    /\ UNCHANGED <<now, db>>
    /\ UNCHANGED <<call, ret, load_failed, runs>>

(* setup_database() whose except logs the error and does not re-raise *)
SetupDatabase_Swallows ==
    /\ pc = "setup"
    /\ \E reachable \in BOOLEAN :
         /\ setup' = IF reachable THEN "ok" ELSE "unreachable"
         /\ opened' = IF reachable THEN opened + 1 ELSE opened
    /\ pc' = "categorizer"
    /\ UNCHANGED <<now, db, tx, txStatus, conn, classifier, site, articles, idx, stats,
                   cutoff_date, fetched, log, last, sighted>>
    /\ UNCHANGED <<call, ret, load_failed, runs>>

(* setup_database(): on a connection of its own, opened at line 121 and    *)
(* closed at line 161, the tables are found or created empty; when the     *)
(* store cannot be reached the exception reaches the outer except.         *)
SetupDatabase ==
    /\ pc = "setup"
    /\ \E reachable \in BOOLEAN :
         IF reachable
         THEN /\ setup' = "ok"
              /\ opened' = opened + 1
              /\ pc' = "categorizer"
              /\ UNCHANGED stats
         ELSE /\ setup' = "unreachable"
              /\ pc' = "failed"
              /\ stats' = [stats EXCEPT !.errors = @ + 1]
              /\ UNCHANGED opened
    /\ UNCHANGED <<now, db, tx, txStatus, conn, classifier, site, articles, idx,
                   cutoff_date, fetched, log, last, sighted>>
    /\ UNCHANGED <<call, ret, load_failed, runs>>

(* NewsCategorizer.__init__ without its try/except: a model that does not *)
(* load raises into the except of run_news_pipeline                       *)
InitCategorizer_Raises ==
    /\ pc = "categorizer"
    /\ \E loaded \in BOOLEAN :
         /\ classifier' = IF loaded THEN "loaded" ELSE "none"
         /\ load_failed' = (load_failed \/ ~loaded)
         /\ pc' = IF loaded THEN "scrape" ELSE "failed"
         /\ stats' = IF loaded THEN stats ELSE [stats EXCEPT !.errors = @ + 1]
    /\ UNCHANGED <<setup, cutoff_date, now, db, tx, txStatus, conn, site, articles, idx,
                   fetched, log, last, sighted>>
    /\ UNCHANGED <<call, ret, opened, runs>>

(* NewsCategorizer(): the model loads, or self.classifier = None. *)
InitCategorizer ==
    /\ pc = "categorizer"
    /\ \E loaded \in BOOLEAN :
         /\ classifier' = IF loaded THEN "loaded" ELSE "none"
         /\ load_failed' = (load_failed \/ ~loaded)
    /\ pc' = "scrape"
    /\ UNCHANGED <<setup, cutoff_date, now, db, tx, txStatus, conn, site, articles, idx, stats,
                   fetched, log, last, sighted>>
    /\ UNCHANGED <<call, ret, opened, runs>>

(* a scraper without its outer try/except: a failed fetch raises into the *)
(* except of run_news_pipeline                                            *)
ScrapeSite_Raises ==
    /\ pc = "scrape"
    /\ site <= Len(TARGET_URLS)
    /\ \E res \in FetchOutcomes(site, now) :
         /\ articles' = articles \o res.items
         /\ fetched' = Append(fetched, [site |-> site, ok |-> res.ok, n |-> Len(res.items)])
         /\ pc' = IF ~res.ok THEN "failed"
                  ELSE IF site = Len(TARGET_URLS) THEN "check" ELSE "scrape"
         /\ stats' = IF res.ok THEN stats ELSE [stats EXCEPT !.errors = @ + 1]
    /\ log' = Append(log, "fetch")
    /\ site' = site + 1
    /\ UNCHANGED <<setup, cutoff_date, now, db, tx, txStatus, conn, classifier, idx, last, sighted>>
    /\ UNCHANGED <<call, ret, load_failed, opened, runs>>

(* One iteration of the loop of scrape_all_sites. *)
ScrapeSite ==
    /\ pc = "scrape"
    /\ site <= Len(TARGET_URLS)
    /\ \E res \in FetchOutcomes(site, now) :
         /\ articles' = articles \o res.items
         /\ fetched' = Append(fetched, [site |-> site, ok |-> res.ok, n |-> Len(res.items)])
    /\ log' = Append(log, "fetch")
    /\ site' = site + 1
    /\ pc' = IF site = Len(TARGET_URLS) THEN "check" ELSE "scrape"
    /\ UNCHANGED <<setup, cutoff_date, now, db, tx, txStatus, conn, classifier, idx, stats, last, sighted>>
    /\ UNCHANGED <<call, ret, load_failed, opened, runs>>

(* run_news_pipeline without "if not articles: return" *)
CheckArticles_NoReturn ==
    /\ pc = "check"
    /\ pc' = "connect"
    /\ fetched' = <<>>
    /\ UNCHANGED <<setup, cutoff_date, now, db, tx, txStatus, conn, classifier, site, articles, idx,
                   stats, log, last, sighted>>
    /\ UNCHANGED <<call, ret, load_failed, opened, runs>>

(* scrape_all_sites returns (its locals are gone); if not articles: return *)
CheckArticles ==
    /\ pc = "check"
    /\ pc' = IF articles = <<>> THEN "done" ELSE "connect"
    /\ fetched' = <<>>
    /\ UNCHANGED <<setup, cutoff_date, now, db, tx, txStatus, conn, classifier, site, articles, idx,
                   stats, log, last, sighted>>
    /\ UNCHANGED <<call, ret, load_failed, opened, runs>>

(* conn = psycopg2.connect(DB_CONFIG), the connection of the run *)
Connect ==
    /\ pc = "connect"
    /\ \E reachable \in BOOLEAN :
         IF reachable
         THEN /\ conn' = "open"
              /\ opened' = opened + 1
              /\ tx' = db
              /\ txStatus' = "idle"
              /\ pc' = IF articles = <<>> THEN "deactivate" ELSE "loop"
              /\ UNCHANGED stats
         ELSE /\ pc' = "failed"
              /\ stats' = [stats EXCEPT !.errors = @ + 1]
              /\ UNCHANGED <<conn, opened, tx, txStatus>>
    /\ UNCHANGED <<setup, cutoff_date, now, db, classifier, site, articles, idx, fetched, log, last, sighted>>
    /\ UNCHANGED <<call, ret, load_failed, runs>>

(* the loop body counting a failed upsert as an error after it was counted *)
(* as an update                                                            *)
ProcessArticle_CountsBoth ==
    /\ pc = "loop"
    /\ idx <= Len(articles)
    /\ LET article  == articles[idx]
           category == categorize_article(classifier, article.title, article.content)
           res      == upsert_article(tx, txStatus, article, category, now)
       IN  /\ tx' = res.rows
           /\ txStatus' = res.st
           /\ stats' = IF res.isNew
                       THEN [stats EXCEPT !.new_articles = @ + 1]
                       ELSE IF res.did = "error"
                       THEN [stats EXCEPT !.updated_articles = @ + 1, !.errors = @ + 1]
                       ELSE [stats EXCEPT !.updated_articles = @ + 1]
           /\ last' = [did |-> res.did, url |-> article.url, isNew |-> res.isNew,
                       classified |-> Classifies(classifier)]
           /\ sighted' = IF res.did = "error" THEN sighted ELSE sighted \cup {article.url}
    /\ log' = Append(log, "upsert")
    /\ idx' = idx + 1
    /\ pc' = IF idx = Len(articles) THEN "deactivate" ELSE "loop"
    /\ UNCHANGED <<setup, cutoff_date, now, db, conn, classifier, site, articles, fetched>>
    /\ UNCHANGED <<call, ret, load_failed, opened, runs>>

(* One iteration of "for article in articles": categorize, upsert, count.  *)
(* Neither callee lets an exception out, so the except of the loop body    *)
(* (stats['errors'] += 1) is never entered.                                *)
ProcessArticle ==
    /\ pc = "loop"
    /\ idx <= Len(articles)
    /\ LET article  == articles[idx]
           category == categorize_article(classifier, article.title, article.content)
           res      == upsert_article(tx, txStatus, article, category, now)
       IN  /\ tx' = res.rows
           /\ txStatus' = res.st
           /\ stats' = IF res.isNew
                       THEN [stats EXCEPT !.new_articles = @ + 1]
                       ELSE [stats EXCEPT !.updated_articles = @ + 1]
           /\ last' = [did |-> res.did, url |-> article.url, isNew |-> res.isNew,
                       classified |-> Classifies(classifier)]
           /\ sighted' = IF res.did = "error" THEN sighted ELSE sighted \cup {article.url}
    /\ log' = Append(log, "upsert")
    /\ idx' = idx + 1
    /\ pc' = IF idx = Len(articles) THEN "deactivate" ELSE "loop"
    /\ UNCHANGED <<setup, cutoff_date, now, db, conn, classifier, site, articles, fetched>>
    /\ UNCHANGED <<call, ret, load_failed, opened, runs>>

(* deactivate_old_articles(conn) *)
DeactivateOld ==
    /\ pc = "deactivate"
    /\ LET res == deactivate_old_articles(tx, txStatus, now)
       IN  tx' = res.rows /\ txStatus' = res.st
    /\ cutoff_date' = {now - RetentionDays}
    /\ log' = Append(log, "deactivate")
    /\ pc' = "summary"
    /\ UNCHANGED <<now, db, conn, setup, classifier, site, articles, idx, stats, fetched,
                   last, sighted>>
    /\ UNCHANGED <<call, ret, load_failed, opened, runs>>

(* get_summary_stats(conn): reads only *)
Summarize ==
    /\ pc = "summary"
    /\ log' = Append(log, "summarize")
    /\ pc' = "commit"
    /\ UNCHANGED <<setup, cutoff_date, now, db, tx, txStatus, conn, classifier, site, articles, idx,
                   stats, fetched, last, sighted>>
    /\ UNCHANGED <<call, ret, load_failed, opened, runs>>

(* conn.commit(); conn.close().  COMMIT of an aborted transaction rolls it *)
(* back.  When the server is gone conn.commit() raises: the outer except   *)
(* counts the error, and conn.close() is not reached.                      *)
CommitClose ==
    /\ pc = "commit"
    /\ \E committed \in BOOLEAN :
         IF committed
         THEN /\ db' = IF txStatus = "intrans" THEN tx ELSE db
              /\ conn' = "closed"
              /\ pc' = "done"
              /\ UNCHANGED stats
         ELSE /\ db' = db
              /\ conn' = "open"
              /\ pc' = "failed"
              /\ stats' = [stats EXCEPT !.errors = @ + 1]
    /\ tx' = {}
    /\ txStatus' = "none"
    /\ UNCHANGED <<setup, cutoff_date, now, classifier, site, articles, idx, fetched, log,
                   last, sighted>>
    /\ UNCHANGED <<call, ret, load_failed, opened, runs>>

(* The process is killed in the middle of a run: what it held in memory   *)
(* is gone, and the server rolls back the transaction of the connection it *)
(* loses.  The runs that follow are those of a new process.                *)
Crash ==
    /\ pc \in Running
    /\ pc' = "crashed"
    /\ setup' = "unset"
    /\ cutoff_date' = {}
    /\ conn' = IF conn = "open" THEN "lost" ELSE conn
    /\ opened' = 0
    /\ tx' = {}
    /\ txStatus' = "none"
    /\ classifier' = "unset"
    /\ site' = 1
    /\ articles' = <<>>
    /\ idx' = 1
    /\ stats' = NoStats
    /\ fetched' = <<>>
    /\ log' = <<>>
    /\ last' = NoLast
    /\ sighted' = {}
    /\ UNCHANGED <<now, db>>
    /\ load_failed' = FALSE
    /\ UNCHANGED <<call, ret, runs>>

(* A day passes. *)
Tick ==
    /\ now < MaxClock
    /\ now' = now + 1
    /\ UNCHANGED <<setup, cutoff_date, db, tx, txStatus, conn, pc, classifier, site, articles, idx, stats,
                   fetched, log, last, sighted>>
    /\ UNCHANGED <<call, ret, load_failed, opened, runs>>

Next ==
    \/ StartRun
    \/ SetupDatabase
    \/ InitCategorizer
    \/ ScrapeSite
    \/ CheckArticles
    \/ Connect
    \/ ProcessArticle
    \/ DeactivateOld
    \/ Summarize
    \/ CommitClose
    \/ Crash
    \/ Tick

Spec == Init /\ [][Next]_vars

----------------------------------------------------------------------------
(* Steps and views the properties below speak about *)

UniqueUrl(rows) == \A r1, r2 \in rows : r1.url = r2.url => r1 = r2

(* the step of ProcessArticle: one candidate is categorized and upserted *)
UpsertStep == pc = "loop" /\ idx' = idx + 1

(* the store accepts the statements of an upsert of candidate a *)
Accepted(a) == txStatus # "aborted" /\ ColumnsFit(a)

CarriesCandidate(r, a, category) ==
    /\ r.url = a.url
    /\ r.title = a.title
    /\ r.content = a.content
    /\ r.image_url = a.image_url
    /\ r.source = a.source
    /\ r.publish_date = a.publish_date
    /\ r.category = category

----------------------------------------------------------------------------
(* C1: with runs executed one at a time, the committed table and the table *)
(* as the run sees it never hold two rows with the same url, whatever      *)
(* upserts and deactivations ran; an upsert whose url is already present   *)
(* adds no row and reports isNew = False; and when the store executes its  *)
(* UPDATE, the one row of that url carries the title, content, image url,  *)
(* source, publish date and category of this call.                         *)
C1_UpsertByUrl ==
    [][ /\ UniqueUrl(db') /\ UniqueUrl(tx')
        /\ (UpsertStep /\ SelectByUrl(tx, articles[idx].url) # {}) =>
              LET a   == articles[idx]
                  cat == categorize_article(classifier, a.title, a.content)
              IN  /\ Cardinality(tx') = Cardinality(tx)
                  /\ {r.url : r \in tx'} = {r.url : r \in tx}
                  /\ ~last'.isNew
                  /\ stats'.new_articles = stats.new_articles
                  /\ Accepted(a) =>
                        /\ Cardinality(SelectByUrl(tx', a.url)) = 1
                        /\ \A r \in SelectByUrl(tx', a.url) : CarriesCandidate(r, a, cat)
      ]_vars

(* an upsert has just overwritten a row whose committed title was another *)
C1_Witness ==
    /\ pc \in {"loop", "deactivate"}
    /\ last.did = "update"
    /\ \E r \in db : \E q \in tx :
          r.url = last.url /\ q.url = last.url /\ q.title # r.title /\ q.title = articles[idx - 1].title

----------------------------------------------------------------------------
(* the step of CommitClose, which ends a run that processed candidates: db *)
(* is the table the run found, db' the table it leaves                     *)
CommitStep == pc = "commit" /\ pc' = "done"

(* the run scraped exactly one candidate, and the table it found holds a   *)
(* row of that url with another title, left by an earlier run              *)
RescrapedWithNewTitle ==
    /\ Len(articles) = 1
    /\ \E r \in db : r.url = articles[1].url /\ r.title # articles[1].title

(* candidate i met a row of its url: one the run found or one it inserted *)
Matched(i) ==
    \/ \E r \in db : r.url = articles[i].url
    \/ \E j \in 1..(i - 1) : articles[j].url = articles[i].url /\ ColumnsFit(articles[j])

----------------------------------------------------------------------------
(* the step of DeactivateOld *)
DeactivateStep == pc = "deactivate" /\ pc' = "summary"

(* C3: when the store executes the UPDATE of deactivate_old_articles, the  *)
(* rows that are active and whose publish date is strictly older than now  *)
(* minus 7 days become inactive, and every other row (not older than the   *)
(* cutoff, at the cutoff exactly, or inactive already) keeps all fields.   *)
C3_DeactivateExactly ==
    [][ (DeactivateStep /\ txStatus # "aborted") =>
          /\ {r.id : r \in tx'} = {r.id : r \in tx}
          /\ Cardinality(tx') = Cardinality(tx)
          /\ \A r \in tx :
                IF r.is_active /\ r.publish_date < now - 7
                THEN \E q \in tx' : q.id = r.id /\ ~q.is_active /\ q.url = r.url
                                      /\ q.title = r.title /\ q.publish_date = r.publish_date
                ELSE r \in tx'
      ]_vars

(* a deactivation has just turned a row inactive and left another, whose  *)
(* publish date is not older than the cutoff, active                       *)
C3_Witness ==
    /\ pc = "summary"
    /\ txStatus = "intrans"
    /\ \E r \in tx : ~r.is_active /\ r.updated_at = now /\ r.publish_date < now - RetentionDays
                      /\ \E q \in db : q.id = r.id /\ q.is_active
    /\ \E r \in tx : r.is_active /\ r.publish_date >= now - RetentionDays

----------------------------------------------------------------------------
(* C4, as stated: every row whose url was upserted during a run is active  *)
(* when the run has finished.                                              *)
C4_AsStated ==
    pc = "done" => \A r \in db : r.url \in sighted => r.is_active

(* C4, amended: when a run has finished, a row is inactive only if its     *)
(* publish date is older than the 7-day window, sighted or not; and every  *)
(* row sighted in the run whose publish date is not older than the cutoff  *)
(* of the run's deactivation is active.                                    *)
C4_InactiveOnlyIfStale ==
    pc = "done" =>
        \A r \in db :
            /\ ~r.is_active => r.publish_date < now - RetentionDays
            /\ \A c \in cutoff_date :
                  (r.url \in sighted /\ r.publish_date >= c) => r.is_active

(* a run has finished that upserted a row and left it inactive, and that  *)
(* upserted another row and left it active                                *)
C4_Witness ==
    /\ pc = "done"
    /\ \E r \in db : r.url \in sighted /\ ~r.is_active
    /\ \E r \in db : r.url \in sighted /\ r.is_active

----------------------------------------------------------------------------
Repeat(x, n) == [i \in 1..n |-> x]

Fetches  == Repeat("fetch", Len(TARGET_URLS))
Upserts  == Repeat("upsert", Len(articles))

(* C5, as stated: a run that ends without an unrecoverable error has gone  *)
(* through fetch-all, categorize-and-upsert (once per candidate),          *)
(* deactivate-stale (once, after the last upsert) and summarize, in that   *)
(* order, for any number of candidates, zero included.                     *)
C5_AsStated ==
    pc = "done" => log = Fetches \o Upserts \o <<"deactivate", "summarize">>

(* C5, amended: so it is for every run that scraped at least one           *)
(* candidate; a run that scraped none ends right after fetch-all, without  *)
(* deactivation and without summary.                                       *)
C5_PhaseOrder ==
    pc = "done" =>
        log = IF articles = <<>>
              THEN Fetches
              ELSE Fetches \o Upserts \o <<"deactivate", "summarize">>

(* a run of two candidates has ended, its deactivation and summary done *)
C5_Witness ==
    /\ pc = "done"
    /\ Len(articles) = 2
    /\ cutoff_date # {}
    /\ log[Len(log)] = "summarize"

----------------------------------------------------------------------------
(* C6: when the store rejects the upsert of a candidate, the step counts   *)
(* one error for it and counts it neither as new nor as updated.           *)
C6_AsStated ==
    [][ (UpsertStep /\ ~Accepted(articles[idx])) =>
          /\ stats'.errors = stats.errors + 1
          /\ stats'.new_articles = stats.new_articles
          /\ stats'.updated_articles = stats.updated_articles
      ]_vars

----------------------------------------------------------------------------
(* C7: when a run that processed candidates has ended, every candidate     *)
(* whose own upsert the columns accept has its row in the table, whatever  *)
(* happened to the other candidates of the batch, and no row older than    *)
(* the cutoff is left active.                                              *)
C7_AsStated ==
    (pc = "done" /\ articles # <<>>) =>
        /\ \A i \in 1..Len(articles) :
              ColumnsFit(articles[i]) =>
                \E r \in db :
                    CarriesCandidate(r, articles[i],
                        categorize_article(classifier, articles[i].title, articles[i].content))
        /\ \A r \in db : \A c \in cutoff_date : ~(r.is_active /\ r.publish_date < c)

----------------------------------------------------------------------------
(* C8: when a run stops in its middle, what its completed statements wrote *)
(* is in the committed table, where later runs and the read API find it.   *)
C8_AsStated ==
    [][ (pc \in Running /\ pc' = "crashed" /\ txStatus = "intrans") => db' = tx ]_vars

----------------------------------------------------------------------------
(* C9: once setup_database() has failed, the run is over: nothing was and  *)
(* nothing is fetched, categorized or upserted, no connection of the run   *)
(* exists, the table is unchanged, and the run's stats count one error.    *)
C9_SetupFailureAborts ==
    [][ setup' = "unreachable" =>
          /\ pc' = "failed"
          /\ db' = db
          /\ log' = <<>> /\ fetched' = <<>> /\ articles' = <<>>
          /\ classifier' = "unset"
          /\ last' = NoLast /\ sighted' = {}
          /\ conn' = "none" /\ txStatus' = "none"
          /\ stats' = [new_articles |-> 0, updated_articles |-> 0, errors |-> 1]
      ]_vars

(* a run has failed in setup_database() while the table holds rows *)
C9_Witness ==
    /\ setup = "unreachable"
    /\ pc = "failed"
    /\ stats.errors = 1
    /\ db # {}

----------------------------------------------------------------------------
(* the step of ScrapeSite, and the step of CheckArticles *)
ScrapeStep == pc = "scrape" /\ pc' # "crashed" /\ now' = now
CheckStep  == pc = "check" /\ pc' # "crashed" /\ now' = now

(* every source is scraped, in configured order, whether or not earlier    *)
(* fetches failed; a failed fetch adds no candidate, an answered one       *)
(* appends its own; nothing is counted as an error                         *)
ScrapeStepIsLocal ==
    ScrapeStep =>
        LET e == fetched'[Len(fetched')]
        IN  /\ Len(fetched') = site /\ e.site = site
            /\ site' = site + 1
            /\ pc' = IF site = Len(TARGET_URLS) THEN "check" ELSE "scrape"
            /\ ~e.ok => e.n = 0
            /\ Len(articles') = Len(articles) + e.n
            /\ SubSeq(articles', 1, Len(articles)) = articles
            /\ \A i \in (Len(articles) + 1)..Len(articles') :
                  articles'[i].source = TARGET_URLS[site]
            /\ stats' = stats

(* C10, as stated: a failed fetch adds no candidate and stops nothing, the *)
(* other sources are scraped in order and add theirs, and the run goes on  *)
(* to the categorize-and-upsert phase.                                     *)
C10_AsStated ==
    [][ /\ ScrapeStepIsLocal
        /\ (CheckStep /\ \E i \in 1..Len(fetched) : ~fetched[i].ok) =>
              (pc' = "connect" /\ articles' = articles)
      ]_vars

(* C10, amended: ... and the run goes on to the categorize-and-upsert      *)
(* phase when at least one candidate was scraped; when none was, it ends   *)
(* there, as it does without any failed fetch.                             *)
C10_FetchFailureNonFatal ==
    [][ /\ ScrapeStepIsLocal
        /\ CheckStep =>
              /\ articles' = articles /\ stats' = stats
              /\ pc' = IF articles = <<>> THEN "done" ELSE "connect"
      ]_vars

(* all sources were scraped: an early one failed, a later one contributed *)
C10_Witness ==
    /\ pc = "check"
    /\ Len(fetched) = Len(TARGET_URLS)
    /\ \E i, j \in 1..Len(fetched) : i < j /\ ~fetched[i].ok /\ fetched[j].ok /\ fetched[j].n > 0
    /\ articles # <<>>

----------------------------------------------------------------------------
(* NewsCategorizer.categorize_article on its own: one call, for every      *)
(* answer the classifier can give.  Scores are in hundredths.              *)

ScoreScale == 100

Labels == {CategoryDescriptions[c] : c \in DOMAIN CategoryDescriptions} \cup {"entailment"}

CategorizerInit ==
    /\ now = 0
    /\ db = {}
    /\ classifier \in {"loaded", "none"}
    /\ load_failed = (classifier = "none")
    /\ NoRun
    /\ call \in {[fn |-> "categorize_article", result |-> [label |-> l, score |-> sc]] :
                    l \in Labels, sc \in 0..ScoreScale}
               \cup {[fn |-> "categorize_article", result |-> ClassifierError]}
    /\ ret = {}

CategorizeCall ==
    /\ call.fn = "categorize_article"
    /\ ret = {}
    /\ ret' = {categorize_result(classifier, call.result)}
    /\ UNCHANGED <<now, db, tx, txStatus, conn, opened, pc, setup, classifier, load_failed, site,
                   articles, idx, stats, cutoff_date, fetched, log, last, sighted, call, runs>>

(* The candidate that the category is stored with. *)
Categorized == CHOOSE a \in Candidates(1, 0) : a.title = "t1" /\ a.publish_date = 0

(* category = categorizer.categorize_article(...); upsert_article(cursor,  *)
(* article, category): the returned category is written with the article  *)
StoreCategorized ==
    /\ call.fn = "categorize_article"
    /\ ret # {}
    /\ txStatus = "none"
    /\ \E category \in ret :
         LET res == upsert_article(tx, "idle", Categorized, category, now)
         IN  /\ tx' = res.rows
             /\ txStatus' = res.st
    /\ UNCHANGED <<now, db, conn, opened, pc, setup, classifier, load_failed, site,
                   articles, idx, stats, cutoff_date, fetched, log, last, sighted, call, ret, runs>>

CategorizerNext ==
    \/ CategorizeCall
    \/ StoreCategorized

SpecCategorizer == CategorizerInit /\ [][CategorizerNext]_vars

(* the key of the description the classifier ranked first, if it is one *)
KeyOf(label) == {c \in DOMAIN CategoryDescriptions : CategoryDescriptions[c] = label}

(* C11, as stated: with the classifier loaded and a known description      *)
(* ranked first, the call returns "uncategorized" when the top score is    *)
(* below 0.3 and the key of the description when it is 0.3 or more.        *)
C11_AsStated ==
    classifier = "loaded" =>
        \A r \in ret : \A c \in KeyOf(call.result.label) :
            /\ call.result.score < 30 => r = "uncategorized"
            /\ call.result.score >= 30 => r = c

(* C11, amended: ... returns "uncategorized" when the top score is 0.3 or  *)
(* less (0.25, and exactly 0.3) and the key of the description when it is  *)
(* above 0.3 (0.9).                                                        *)
C11_Threshold ==
    classifier = "loaded" =>
        \A r \in ret : \A c \in KeyOf(call.result.label) :
            /\ call.result.score < 30 => r = "uncategorized"
            /\ call.result.score = 30 => r = "uncategorized"
            /\ call.result.score > 30 => r = c

(* the loaded classifier ranked a known description first with score 0.3, *)
(* and the call has returned                                              *)
C11_Witness ==
    /\ classifier = "loaded"
    /\ call.fn = "categorize_article"
    /\ KeyOf(call.result.label) # {}
    /\ call.result.score = 30
    /\ ret = {"uncategorized"}

----------------------------------------------------------------------------
(* C12: a classifier that failed to load does not stop the run; with it,   *)
(* every categorize call returns "uncategorized" without a classification  *)
(* call, every upsert the store executes writes the candidate with         *)
(* category "uncategorized", and a run none of whose statements was        *)
(* rejected leaves a row of category "uncategorized" for every candidate.  *)
C12_Degraded ==
    [][ /\ (pc = "categorizer" /\ classifier' = "none") =>
              (pc' = "scrape" /\ stats' = stats)
        /\ (UpsertStep /\ classifier = "none") =>
              LET a == articles[idx]
              IN  /\ ~last'.classified
                  /\ categorize_article(classifier, a.title, a.content) = "uncategorized"
                  /\ pc' \in {"loop", "deactivate"}
                  /\ stats'.errors = stats.errors
                  /\ Accepted(a) =>
                        \E r \in tx' : CarriesCandidate(r, a, "uncategorized")
        /\ (CommitStep /\ classifier = "none" /\ txStatus = "intrans") =>
              \A i \in 1..Len(articles) :
                  \E r \in db' : CarriesCandidate(r, articles[i], "uncategorized")
      ]_vars

(* a run whose classifier did not load has ended; its two candidates, one  *)
(* of which the loaded classifier files under crop_pests, are in the table *)
(* as "uncategorized"                                                      *)
C12_Witness ==
    /\ pc = "done"
    /\ classifier = "none"
    /\ Len(articles) = 2
    /\ \E i \in 1..Len(articles) :
          MapLabel(ClassifierOutput(articles[i].title, articles[i].content).label,
                   ClassifierOutput(articles[i].title, articles[i].content).score) # "uncategorized"
    /\ \A i \in 1..Len(articles) :
          \E r \in db : CarriesCandidate(r, articles[i], "uncategorized")

----------------------------------------------------------------------------
(* the step of InitCategorizer: NewsCategorizer() attempts to load the model *)
LoadStep == pc = "categorizer" /\ pc' = "scrape"

(* C13, as stated: once a load of the model has failed in the process, no  *)
(* further load is attempted and every later categorize call, those of     *)
(* later runs included, returns "uncategorized".                           *)
C13_AsStated ==
    [][ load_failed =>
          /\ ~LoadStep
          /\ UpsertStep =>
                categorize_article(classifier, articles[idx].title, articles[idx].content)
                    = "uncategorized"
      ]_vars

(* C13, amended: unavailability is decided once per run, when the run      *)
(* builds its categorizer, and lasts for that run: after a failed load     *)
(* every categorize call of the run returns "uncategorized" without a      *)
(* classification call and the run attempts no other load; every run       *)
(* attempts the load once, whatever happened in earlier runs.              *)
C13_PerRun ==
    [][ /\ (classifier = "none" /\ pc' \notin {"setup", "crashed"}) => classifier' = "none"
        /\ (classifier = "none" /\ UpsertStep) =>
              /\ ~last'.classified
              /\ categorize_article(classifier, articles[idx].title, articles[idx].content)
                    = "uncategorized"
              /\ Accepted(articles[idx]) =>
                    \A r \in SelectByUrl(tx', articles[idx].url) : r.category = "uncategorized"
        /\ LoadStep => (classifier = "unset" /\ classifier' \in {"loaded", "none"})
        /\ classifier' # classifier => (LoadStep \/ pc' \in {"setup", "crashed"})
        /\ (pc = "scrape" /\ pc' # "crashed") => classifier \in {"loaded", "none"}
      ]_vars

(* in a process where an earlier run failed to load the model, a later run *)
(* has loaded it and has just classified a candidate                       *)
C13_Witness ==
    /\ load_failed
    /\ classifier = "loaded"
    /\ pc \in {"loop", "deactivate"}
    /\ last.classified
    /\ \E r \in tx : r.url = last.url /\ r.category # "uncategorized"

----------------------------------------------------------------------------
(* The read API: get_news and get_categories, and get_summary_stats, which *)
(* runs the same category query.  Each is one query on the committed table *)
(* through a connection of its own.                                        *)

NoExc == [type |-> "none", msg |-> ""]

ConnectError == [type |-> "OperationalError", msg |-> "could not connect to server"]
ValueError   == [type |-> "ValueError", msg |-> "invalid literal for int() with base 10"]
LimitError   == [type |-> "DataError", msg |-> "LIMIT must not be negative"]

(* str(e): the text of the exception *)
str(e) == e.msg

(* int(s) of the values the limit parameter takes *)
int(s) ==
    CASE s = "0"  -> [ok |-> TRUE, v |-> 0]
      [] s = "1"  -> [ok |-> TRUE, v |-> 1]
      [] s = "2"  -> [ok |-> TRUE, v |-> 2]
      [] s = "-1" -> [ok |-> TRUE, v |-> 0 - 1]
      [] OTHER    -> [ok |-> FALSE, v |-> 0]

(* str(article['id']) and publish_date.isoformat() *)
StrId(i) == <<"uuid", i>>
isoformat(d) == <<"iso", d>>

(* one entry of the articles list of get_news *)
ArticleJson(r) ==
    [id |-> StrId(r.id), title |-> r.title, content |-> r.content,
     image_url |-> r.image_url, source |-> r.source,
     publish_date |-> isoformat(r.publish_date), category |-> r.category, url |-> r.url]

(* the WHERE clause without "is_active = TRUE" *)
SelectNews_AnyFlag(rows, category) ==
    {r \in rows : category \notin {NULL, ""} => r.category = category}

(* WHERE is_active = TRUE [AND category = %s]; "if category:" adds the     *)
(* second condition for a parameter that is present and not empty          *)
SelectNews(rows, category) ==
    {r \in rows : r.is_active /\ (category \notin {NULL, ""} => r.category = category)}

(* ORDER BY publish_date DESC: the orders the store may return the rows in *)
RECURSIVE OrderByPublishDateDesc(_)
OrderByPublishDateDesc(S) ==
    IF S = {} THEN {<<>>}
    ELSE UNION { {<<r>> \o q : q \in OrderByPublishDateDesc(S \ {r})} :
                   r \in {x \in S : \A y \in S : x.publish_date >= y.publish_date} }

ErrorResponse(e) ==
    [status |-> 500, exc |-> e, body |-> [success |-> FALSE, error |-> str(e)]]

(* get_news: the responses the request can get *)
get_news(rows, req) ==
    IF req.store # "up" THEN {ErrorResponse(ConnectError)}
    ELSE IF req.limit # NULL /\ ~int(req.limit).ok THEN {ErrorResponse(ValueError)}
    ELSE LET limit == IF req.limit = NULL THEN DefaultLimit ELSE int(req.limit).v
         IN  IF limit < 0 THEN {ErrorResponse(LimitError)}
             ELSE { LET result == [i \in 1..Min(limit, Len(q)) |-> ArticleJson(q[i])]
                    IN  [status |-> 200, exc |-> NoExc,
                         body |-> [success |-> TRUE, count |-> Len(result), articles |-> result]] :
                      q \in OrderByPublishDateDesc(SelectNews(rows, req.category)) }

(* the GROUP BY over all rows, without "WHERE is_active = TRUE" *)
CountByCategory_AnyFlag(rows) ==
    { [category |-> c, count |-> Cardinality({r \in rows : r.category = c})] :
        c \in {r.category : r \in rows} }

(* SELECT category, COUNT FROM news WHERE is_active = TRUE GROUP BY category *)
CountByCategory(rows) ==
    { [category |-> c, count |-> Cardinality({r \in rows : r.is_active /\ r.category = c})] :
        c \in {r.category : r \in {x \in rows : x.is_active}} }

(* ORDER BY count DESC: the orders the store may return the groups in *)
RECURSIVE OrderByCountDesc(_)
OrderByCountDesc(G) ==
    IF G = {} THEN {<<>>}
    ELSE UNION { {<<g>> \o q : q \in OrderByCountDesc(G \ {g})} :
                   g \in {x \in G : \A y \in G : x.count >= y.count} }

(* get_categories: the responses the request can get *)
get_categories(rows, req) ==
    IF req.store # "up" THEN {ErrorResponse(ConnectError)}
    ELSE { [status |-> 200, exc |-> NoExc, body |-> [success |-> TRUE, categories |-> q]] :
             q \in OrderByCountDesc(CountByCategory(rows)) }

(* get_summary_stats(conn) on a connection that sees rows at time t; on an *)
(* aborted transaction the first query raises and the except returns {}    *)
get_summary_stats(rows, st, t) ==
    IF st = "aborted" THEN {<<>>}
    ELSE { [category_stats |-> q,
            total_active |-> Cardinality({r \in rows : r.is_active}),
            today_count |-> Cardinality({r \in rows : r.publish_date = t})] :
             q \in OrderByCountDesc(CountByCategory(rows)) }

(* The tables the API is called on: every table of at most MaxRows rows    *)
(* the pipeline can leave (an inactive row is older than the retention     *)
(* window), and one of DefaultLimit + 1 active rows and an inactive one.   *)

MaxRows == 3

ApiDates == {0 - RetentionDays - 1, 0 - 1, 0}
ApiCategories == {"crop_pests", "uncategorized"}

ApiRow(i, d, c, a) ==
    [id |-> i, title |-> "t1", content |-> "", image_url |-> NULL,
     source |-> TARGET_URLS[1], publish_date |-> d, category |-> c,
     url |-> <<"u", i>>, is_active |-> a, created_at |-> d, updated_at |-> d]

RowChoices(i) ==
    {r \in {ApiRow(i, d, c, a) : d \in ApiDates, c \in ApiCategories, a \in BOOLEAN} :
        r.is_active \/ r.publish_date < 0 - RetentionDays}

RECURSIVE TablesUpTo(_)
TablesUpTo(n) ==
    IF n = 0 THEN {{}}
    ELSE LET T == TablesUpTo(n - 1)
         IN  T \cup {t \cup {r} : t \in T, r \in RowChoices(n)}

FullTable ==
    {ApiRow(i, 0 - i, IF i % 2 = 0 THEN "crop_pests" ELSE "uncategorized",
            i # RetentionDays + 2) :
        i \in 1..(DefaultLimit + 2)}

ApiTables == TablesUpTo(MaxRows) \cup {FullTable}

ApiCalls ==
    {[fn |-> "get_news", store |-> st, category |-> c, limit |-> l] :
        st \in {"up", "down"},
        c \in {NULL, "", "crop_pests", "livestock_dairy"},
        l \in {NULL, "0", "1", "2", "-1", "abc"}}
    \cup {[fn |-> "get_categories", store |-> st] : st \in {"up", "down"}}
    \cup {[fn |-> "get_summary_stats", tx |-> st] : st \in {"idle", "aborted"}}

ApiInit ==
    /\ now = 0
    /\ db \in ApiTables
    /\ classifier = "unset"
    /\ load_failed = FALSE
    /\ NoRun
    /\ call \in ApiCalls
    /\ ret = {}

GetNews ==
    /\ call.fn = "get_news"
    /\ ret = {}
    /\ \E response \in get_news(db, call) : ret' = {response}
    /\ UNCHANGED <<now, db, tx, txStatus, conn, opened, pc, setup, classifier, load_failed, site,
                   articles, idx, stats, cutoff_date, fetched, log, last, sighted, call, runs>>

GetCategories ==
    /\ call.fn = "get_categories"
    /\ ret = {}
    /\ \E response \in get_categories(db, call) : ret' = {response}
    /\ UNCHANGED <<now, db, tx, txStatus, conn, opened, pc, setup, classifier, load_failed, site,
                   articles, idx, stats, cutoff_date, fetched, log, last, sighted, call, runs>>

GetSummaryStats ==
    /\ call.fn = "get_summary_stats"
    /\ ret = {}
    /\ \E summary_stats \in get_summary_stats(db, call.tx, now) : ret' = {summary_stats}
    /\ UNCHANGED <<now, db, tx, txStatus, conn, opened, pc, setup, classifier, load_failed, site,
                   articles, idx, stats, cutoff_date, fetched, log, last, sighted, call, runs>>

ApiNext ==
    \/ GetNews
    \/ GetCategories
    \/ GetSummaryStats

SpecApi == ApiInit /\ [][ApiNext]_vars

----------------------------------------------------------------------------
(* the day of a publish_date of a response *)
DayOf(iso) == iso[2]

(* C14: a successful response of get_news holds only rows that are active  *)
(* in the table, each once, all of the requested category when the         *)
(* category parameter is given (present and not empty), at most limit of   *)
(* them (10 without a limit parameter), in non-increasing order of publish *)
(* date; a matching active row missing from it is not newer than any row   *)
(* in it, and none is missing unless the limit is reached; count is the    *)
(* number of articles.                                                     *)
C14_QueryActive ==
    call.fn = "get_news" =>
      \A resp \in ret : resp.body.success =>
        LET arts     == resp.body.articles
            limit    == IF call.limit = NULL THEN 10 ELSE int(call.limit).v
            given    == call.category \notin {NULL, ""}
            matching == {r \in db : r.is_active /\ (given => r.category = call.category)}
        IN  /\ \A i \in 1..Len(arts) : \E r \in db : r.is_active /\ ArticleJson(r) = arts[i]
            /\ given => \A i \in 1..Len(arts) : arts[i].category = call.category
            /\ Len(arts) <= limit
            /\ \A i, j \in 1..Len(arts) :
                  /\ i < j => DayOf(arts[i].publish_date) >= DayOf(arts[j].publish_date)
                  /\ i # j => arts[i].id # arts[j].id
            /\ \A r \in matching :
                  (\E i \in 1..Len(arts) : DayOf(arts[i].publish_date) < r.publish_date)
                      => \E i \in 1..Len(arts) : arts[i] = ArticleJson(r)
            /\ Len(arts) = Min(limit, Cardinality(matching))
            /\ resp.body.count = Len(arts)

(* get_news without parameters has answered on a table of 11 active rows   *)
(* and an inactive one: the response holds 10 articles                     *)
C14_Witness ==
    /\ call.fn = "get_news"
    /\ call.limit = NULL /\ call.category = NULL
    /\ db = FullTable
    /\ Cardinality({r \in db : r.is_active}) = 11
    /\ \E resp \in ret : resp.body.success /\ resp.body.count = 10

----------------------------------------------------------------------------
RECURSIVE SumCounts(_)
SumCounts(q) == IF q = <<>> THEN 0 ELSE q[1].count + SumCounts(Tail(q))

ActiveOf(rows, c) == {r \in rows : r.is_active /\ r.category = c}

(* the list holds every category that has an active row exactly once, and  *)
(* no other, each with the number of its active rows, in non-increasing    *)
(* order of count                                                          *)
CountsActive(cats, rows) ==
    /\ \A c \in {r.category : r \in {x \in rows : x.is_active}} :
          Cardinality({i \in 1..Len(cats) : cats[i].category = c}) = 1
    /\ \A i \in 1..Len(cats) :
          /\ cats[i].count >= 1
          /\ cats[i].count = Cardinality(ActiveOf(rows, cats[i].category))
    /\ \A i, j \in 1..Len(cats) : i < j => cats[i].count >= cats[j].count
    /\ SumCounts(cats) = Cardinality({r \in rows : r.is_active})

(* C15: the category counts of a successful get_categories response, and   *)
(* those of the run summary, list each category that has an active row     *)
(* exactly once with the number of its active rows, in non-increasing      *)
(* order of count; inactive rows are not counted, so the counts add up to  *)
(* the number of active rows (the summary's total_active).                 *)
C15_CategoryCounts ==
    /\ call.fn = "get_categories" =>
          \A resp \in ret : resp.body.success => CountsActive(resp.body.categories, db)
    /\ (call.fn = "get_summary_stats" /\ call.tx # "aborted") =>
          \A summary_stats \in ret :
              /\ CountsActive(summary_stats.category_stats, db)
              /\ summary_stats.total_active = SumCounts(summary_stats.category_stats)

(* get_categories has answered on a table with an inactive row and active  *)
(* rows of two categories, one category having more of them                *)
C15_Witness ==
    /\ call.fn = "get_categories"
    /\ \E r \in db : ~r.is_active
    /\ \E resp \in ret :
          /\ resp.body.success
          /\ Len(resp.body.categories) = 2
          /\ resp.body.categories[1].count > resp.body.categories[2].count

----------------------------------------------------------------------------
(* C16: when a request of the read API fails internally, the response has  *)
(* success = false and a server-error status, and its error field is not   *)
(* the text of the internal error.                                         *)
C16_AsStated ==
    call.fn \in {"get_news", "get_categories"} =>
        \A resp \in ret :
            resp.exc # NoExc =>
                /\ resp.body.success = FALSE
                /\ resp.status >= 500 /\ resp.status <= 599
                /\ resp.body.error # resp.exc.msg

----------------------------------------------------------------------------
(* C17: a run opens one connection to the store, no more; a run that has   *)
(* completed has opened exactly one; and when a run has ended, by          *)
(* completion, by the early return or by a failure, its connection is not  *)
(* left open.                                                              *)
C17_AsStated ==
    /\ opened <= 1
    /\ pc = "done" => opened = 1
    /\ pc \in {"done", "failed"} => conn # "open"

----------------------------------------------------------------------------
(* The extractors on their own: the title of a container, and              *)
(* extract_date_from_text.                                                 *)

(* the elements a container may hold that a title chain looks for *)
Elements == {"h1", "h2", "h3", ".title", ".headline", "a"}

(* elem.get_text(strip=True) of the first element the selector finds *)
get_text(sel) == "text of " \o sel

(* the title chain of scrape_narc_news (line 232) and title_selectors of   *)
(* scrape_generic_news (line 300)                                          *)
title_selectors(profile) ==
    IF profile = "narc" THEN <<"h2", "h3", "a">>
    ELSE <<"h1", "h2", "h3", ".title", ".headline">>

(* a chain in which a later selector that finds an element overrides an   *)
(* earlier one (the loop without its break)                               *)
RECURSIVE FirstFound_NoBreak(_, _)
FirstFound_NoBreak(chain, item) ==
    IF chain = <<>> THEN {}
    ELSE LET later == FirstFound_NoBreak(Tail(chain), item)
         IN  IF later # {} THEN later
             ELSE IF Head(chain) \in item THEN {Head(chain)} ELSE {}

(* "a or b or c" / "for selector in ...: if elem: ...; break": the first   *)
(* selector of the chain that finds an element, if any                     *)
RECURSIVE FirstFound(_, _)
FirstFound(chain, item) ==
    IF chain = <<>> THEN {}
    ELSE IF Head(chain) \in item THEN {Head(chain)}
    ELSE FirstFound(Tail(chain), item)

extract_title(profile, item) ==
    LET found == FirstFound(title_selectors(profile), item)
    IN  IF found = {} THEN "No title" ELSE get_text(CHOOSE sel \in found : TRUE)

(* A text is a sequence of pieces; each piece is matched by at most one of *)
(* date_patterns, in whole.                                                *)
Pieces == {"2024-03-15", "2024-13-45", "03/16/2024", "99/99/2024",
           "17-03-2024", "45-13-2024", "15 Baisakh 2080", "no date here"}

MaxPieces == 2

(* date_patterns, in order: the pieces each pattern matches *)
date_patterns ==
    << {"2024-03-15", "2024-13-45"},
       {"03/16/2024", "99/99/2024"},
       {"17-03-2024", "45-13-2024"},
       {"15 Baisakh 2080"} >>

(* re.search(pattern, text): the leftmost match, if any *)
search(pattern, text) ==
    LET at == {i \in 1..Len(text) : text[i] \in pattern}
    IN  IF at = {} THEN {} ELSE {text[CHOOSE i \in at : \A j \in at : i <= j]}

(* date_parser.parse(date_str): the date, or {} when it raises *)
parse(date_str) ==
    CASE date_str = "2024-03-15" -> {<<2024, 3, 15>>}
      [] date_str = "03/16/2024" -> {<<2024, 3, 16>>}
      [] date_str = "17-03-2024" -> {<<2024, 3, 17>>}
      [] OTHER                   -> {}

(* the loop without its try/except: a failed parse raises out of the call *)
RECURSIVE TryPatterns_NoTry(_, _)
TryPatterns_NoTry(patterns, text) ==
    IF patterns = <<>> THEN [raised |-> FALSE, value |-> {}]
    ELSE LET match == search(Head(patterns), text)
         IN  IF match = {} THEN TryPatterns_NoTry(Tail(patterns), text)
             ELSE LET d == parse(CHOOSE m \in match : TRUE)
                  IN  IF d # {} THEN [raised |-> FALSE, value |-> d]
                      ELSE [raised |-> TRUE, value |-> {}]

(* for pattern in date_patterns: ... try: return parse except: continue *)
RECURSIVE TryPatterns(_, _)
TryPatterns(patterns, text) ==
    IF patterns = <<>> THEN [raised |-> FALSE, value |-> {}]
    ELSE LET match == search(Head(patterns), text)
         IN  IF match = {} THEN TryPatterns(Tail(patterns), text)
             ELSE LET d == parse(CHOOSE m \in match : TRUE)
                  IN  IF d # {} THEN [raised |-> FALSE, value |-> d]
                      ELSE TryPatterns(Tail(patterns), text)

(* value is {} for None *)
extract_date_from_text(text) ==
    IF text = <<>> THEN [raised |-> FALSE, value |-> {}]
    ELSE TryPatterns(date_patterns, text)

ExtractorCalls ==
    {[fn |-> "extract_title", profile |-> p, item |-> c] :
        p \in {"narc", "generic"}, c \in SUBSET Elements}
    \cup {[fn |-> "extract_date_from_text", text |-> q] : q \in SeqsUpTo(Pieces, MaxPieces)}
    \cup {[fn |-> "extract_items", profile |-> "narc", page |-> q] : q \in LinklessPages(1, 0)}
    \cup {[fn |-> "extract_items", profile |-> "generic", page |-> q] : q \in LinklessPages(2, 0)}

ExtractorInit ==
    /\ now = 0
    /\ db = {}
    /\ classifier = "unset"
    /\ load_failed = FALSE
    /\ NoRun
    /\ call \in ExtractorCalls
    /\ ret = {}

ExtractTitle ==
    /\ call.fn = "extract_title"
    /\ ret = {}
    /\ ret' = {extract_title(call.profile, call.item)}
    /\ UNCHANGED <<now, db, tx, txStatus, conn, opened, pc, setup, classifier, load_failed, site,
                   articles, idx, stats, cutoff_date, fetched, log, last, sighted, call, runs>>

ExtractDate ==
    /\ call.fn = "extract_date_from_text"
    /\ ret = {}
    /\ ret' = {extract_date_from_text(call.text)}
    /\ UNCHANGED <<now, db, tx, txStatus, conn, opened, pc, setup, classifier, load_failed, site,
                   articles, idx, stats, cutoff_date, fetched, log, last, sighted, call, runs>>

(* The loop of a scraper over the containers of a fetched page; the list   *)
(* it returns is what scrape_all_sites extends the run's candidates with.  *)
ExtractItems ==
    /\ call.fn = "extract_items"
    /\ ret = {}
    /\ articles' = extract_items(SubSeq(call.page, 1, Min(Len(call.page), MaxItems)))
    /\ ret' = {"returned"}
    /\ UNCHANGED <<now, db, tx, txStatus, conn, opened, pc, setup, classifier, load_failed, site,
                   idx, stats, cutoff_date, fetched, log, last, sighted, call, runs>>

ExtractorNext ==
    \/ ExtractTitle
    \/ ExtractDate
    \/ ExtractItems

SpecExtractor == ExtractorInit /\ [][ExtractorNext]_vars

----------------------------------------------------------------------------
(* C18, as stated: in both profiles the title of a container with an h1    *)
(* and an h2 is the text of the h1, that of a container with an h2 and no  *)
(* h1 is the text of the h2 (the general rule, first element present in   *)
(* the profile's chain or "No title", is stated in C18_TitleChain).        *)
C18_AsStated ==
    call.fn = "extract_title" =>
        \A title \in ret :
            /\ ({"h1", "h2"} \subseteq call.item) => title = "text of h1"
            /\ ("h2" \in call.item /\ "h1" \notin call.item) => title = "text of h2"

(* C18, amended: in the generic profile (chain h1, h2, h3, .title,         *)
(* .headline) the title of a container with an h1 and an h2 is the text of *)
(* the h1; in the specialized profile (chain h2, h3, a) it is the text of  *)
(* the h2, an h1 is never looked at; in both, a container with an h2 and   *)
(* no h1 yields the text of the h2; in general the title is the text of    *)
(* the first element present in the profile's chain, or "No title".        *)
C18_TitleChain ==
    call.fn = "extract_title" =>
        \A title \in ret :
            LET has(sel) == sel \in call.item
            IN  IF call.profile = "generic"
                THEN title = IF has("h1") THEN "text of h1"
                             ELSE IF has("h2") THEN "text of h2"
                             ELSE IF has("h3") THEN "text of h3"
                             ELSE IF has(".title") THEN "text of .title"
                             ELSE IF has(".headline") THEN "text of .headline"
                             ELSE "No title"
                ELSE title = IF has("h2") THEN "text of h2"
                             ELSE IF has("h3") THEN "text of h3"
                             ELSE IF has("a") THEN "text of a"
                             ELSE "No title"

(* the specialized profile has resolved the title of a container that has *)
(* an h1 and an h2                                                        *)
C18_Witness ==
    /\ call.fn = "extract_title"
    /\ call.profile = "narc"
    /\ {"h1", "h2", "h3"} \subseteq call.item
    /\ ret = {"text of h2"}

----------------------------------------------------------------------------
(* the piece of the text that the k-th pattern (1 ISO, 2 MM/DD/YYYY,       *)
(* 3 DD-MM-YYYY, 4 month name) matches first, if any                       *)
MatchOf(k, text) ==
    LET at == {i \in 1..Len(text) : text[i] \in date_patterns[k]}
    IN  {text[i] : i \in {j \in at : \A m \in at : j <= m}}

(* the patterns that match a piece of the text that parses *)
Parsing(text) == {k \in 1..4 : \E m \in MatchOf(k, text) : parse(m) # {}}

(* C19: extract_date_from_text never raises; it returns None exactly when  *)
(* no pattern matches or every matched piece fails to parse (the empty     *)
(* text included); otherwise it returns the parse of the piece matched by  *)
(* the first pattern, in the order ISO, MM/DD/YYYY, DD-MM-YYYY, month      *)
(* name, whose match parses, wherever the pieces stand in the text and     *)
(* whatever earlier patterns matched without parsing.                      *)
C19_ParseDate ==
    call.fn = "extract_date_from_text" =>
        \A r \in ret :
            /\ ~r.raised
            /\ (r.value = {}) <=> (Parsing(call.text) = {})
            /\ \A k \in Parsing(call.text) :
                  (\A j \in Parsing(call.text) : k <= j) =>
                      \E m \in MatchOf(k, call.text) : r.value = parse(m)
            /\ call.text = <<>> => r.value = {}

(* the ISO pattern matched a piece that does not parse, a later pattern    *)
(* matched one that does, and the call returned the later one's date       *)
C19_Witness ==
    /\ call.fn = "extract_date_from_text"
    /\ call.text = <<"03/16/2024", "2024-13-45">>
    /\ ret = {[raised |-> FALSE, value |-> {<<2024, 3, 16>>}]}

----------------------------------------------------------------------------
Urls(rows) == {r.url : r \in rows}

(* C20: no step of the pipeline removes a row: the urls (and ids) of the   *)
(* committed table only grow, across runs that complete, fail or crash,    *)
(* and within a run no upsert and no deactivation removes a url from the   *)
(* table the run sees; rows only change fields or the active flag.         *)
C20_NeverDeleted ==
    [][ /\ Urls(db) \subseteq Urls(db')
        /\ {r.id : r \in db} \subseteq {r.id : r \in db'}
        /\ Cardinality(db) <= Cardinality(db')
        /\ (UpsertStep \/ DeactivateStep) => Urls(tx) \subseteq Urls(tx')
      ]_vars

(* a later run has completed; the table still holds the row an earlier run *)
(* stored, now inactive, next to an active one                             *)
C20_Witness ==
    /\ pc = "done"
    /\ cutoff_date # {}
    /\ \E r \in db : ~r.is_active /\ r.created_at < now
    /\ \E r \in db : r.is_active

----------------------------------------------------------------------------
(* The containers of a page that have an anchor with a non-empty href. *)
Linked(page) == SelectSeq(page, LAMBDA c : c.link = "href")

(* C21: in either profile a container without a resolvable link (no       *)
(* anchor, an anchor without href, an anchor with an empty href) yields no *)
(* candidate and no error: the scraper returns, and the candidates it      *)
(* hands over are those of the page's other containers, in order, each     *)
(* with a url that is neither None nor empty.                              *)
C21_LinklessSkipped ==
    (call.fn = "extract_items" /\ ret # {}) =>
        /\ ret = {"returned"}
        /\ Len(articles) = Len(Linked(call.page))
        /\ \A i \in 1..Len(articles) :
              /\ articles[i].url \notin {NULL, ""}
              /\ articles[i].url = Linked(call.page)[i].item.url
              /\ articles[i].title = Linked(call.page)[i].item.title

(* a page whose first container has no resolvable link and whose second    *)
(* has one was scraped, in each profile's case one candidate came out      *)
C21_Witness ==
    /\ call.fn = "extract_items" /\ ret # {}
    /\ Len(call.page) = 2
    /\ call.page[1].link = "empty href" /\ call.page[2].link = "href"
    /\ call.profile = "generic"
    /\ Len(articles) = 1

----------------------------------------------------------------------------
(* C22: categorize_article returns one of the nine category keys or        *)
(* "uncategorized" for every outcome of the classifier (none loaded, an    *)
(* exception, a top label that is no known description, a score at or      *)
(* below the threshold, a known description above it), and the row written *)
(* with the returned category has a category of that set.                  *)
C22_CategoryInSet ==
    call.fn = "categorize_article" =>
        /\ \A category \in ret : category \in CATEGORIES
        /\ \A r \in tx : r.category \in CATEGORIES

(* the loaded classifier ranked a known description first with a score     *)
(* above the threshold and the article was written with its key            *)
C22_Witness ==
    /\ call.fn = "categorize_article"
    /\ classifier = "loaded"
    /\ call.result = [label |-> CategoryDescriptions["livestock_dairy"], score |-> 31]
    /\ \E r \in tx : r.category = "livestock_dairy"

----------------------------------------------------------------------------
(* deactivate_old_articles called repeatedly on one cursor *)

MaxCalls == 2

RepositoryInit ==
    /\ now = 1
    /\ db \in TablesUpTo(MaxRows)
    /\ tx = db
    /\ txStatus = "idle"
    /\ conn = "open"
    /\ opened = 1
    /\ pc = "deactivate"
    /\ setup = "ok"
    /\ classifier = "unset"
    /\ load_failed = FALSE
    /\ site = 1
    /\ articles = <<>>
    /\ idx = 1
    /\ stats = NoStats
    /\ cutoff_date = {}
    /\ fetched = <<>>
    /\ log = <<>>
    /\ last = NoLast
    /\ sighted = {}
    /\ call = [fn |-> "deactivate_old_articles"]
    /\ ret = {}
    /\ runs = <<>>

DeactivateCall ==
    /\ call.fn = "deactivate_old_articles"
    /\ Len(log) < MaxCalls
    /\ LET res == deactivate_old_articles(tx, txStatus, now)
       IN  tx' = res.rows /\ txStatus' = res.st
    /\ cutoff_date' = {now - RetentionDays}
    /\ log' = Append(log, "deactivate")
    /\ UNCHANGED <<now, db, conn, opened, pc, setup, classifier, load_failed, site, articles, idx,
                   stats, fetched, last, sighted, call, ret, runs>>

RepositoryNext == DeactivateCall

SpecRepository == RepositoryInit /\ [][RepositoryNext]_vars

(* C23: a call of deactivate_old_articles that follows another one at the  *)
(* same clock value, with no upsert in between, changes no field of any    *)
(* row: neither is_active nor updated_at.                                  *)
C23_Idempotent ==
    [][ (call.fn = "deactivate_old_articles" /\ Len(log) >= 1 /\ Len(log') = Len(log) + 1) =>
            tx' = tx ]_vars

(* after two calls: a row the first call deactivated, beside a row that    *)
(* was inactive before and a row that stays active                         *)
C23_Witness ==
    /\ call.fn = "deactivate_old_articles"
    /\ Len(log) = 2
    /\ \E r \in tx : /\ ~r.is_active /\ r.updated_at = now
                     /\ \E q \in db : q.id = r.id /\ q.is_active /\ q.updated_at < now
    /\ \E r \in tx \cap db : ~r.is_active
    /\ \E r \in tx \cap db : r.is_active

----------------------------------------------------------------------------
(* C24: in every state of the pipeline every inactive row, committed or    *)
(* written by the running transaction, has a publish date older than the   *)
(* 7-day window, and the today_count of the run summary, which counts the  *)
(* rows published today whatever their flag, is the number of active rows  *)
(* published today.                                                        *)
C24_TodayCountsActive ==
    /\ \A r \in db \cup tx : ~r.is_active => r.publish_date < now - RetentionDays
    /\ (pc = "summary" /\ txStatus # "aborted") =>
          \A s \in get_summary_stats(tx, txStatus, now) :
              s.today_count = Cardinality({r \in tx : r.is_active /\ r.publish_date = now})

(* a summary over a table with an inactive row and a row published today *)
C24_Witness ==
    /\ pc = "summary" /\ txStatus = "intrans"
    /\ \E r \in tx : ~r.is_active
    /\ \E s \in get_summary_stats(tx, txStatus, now) : s.today_count >= 1

----------------------------------------------------------------------------
(* C27: an upsert leaves every row with another url as it was and adds no  *)
(* row with another url, and when its url is already present the row of    *)
(* that url keeps its id and its created_at.                               *)
C27_UpsertFrame ==
    [][ UpsertStep =>
          LET a == articles[idx]
          IN  /\ \A r \in tx  : r.url # a.url => r \in tx'
              /\ \A q \in tx' : q.url # a.url => q \in tx
              /\ \A r \in SelectByUrl(tx, a.url) :
                    \E q \in tx' : q.url = a.url /\ q.id = r.id /\ q.created_at = r.created_at
      ]_vars

(* a row created on an earlier day has just been updated, beside a row     *)
(* with another url                                                        *)
C27_Witness ==
    /\ pc \in {"loop", "deactivate"}
    /\ last.did = "update"
    /\ \E q \in tx : q.url = last.url /\ q.created_at < q.updated_at /\ q.updated_at = now
    /\ \E r \in tx : r.url # last.url

----------------------------------------------------------------------------
(* C28: every iteration of the loop adds one to exactly one of             *)
(* new_articles, updated_articles and errors, and from the end of the loop *)
(* to the commit their sum is the number of candidates scraped.            *)
C28_OneCounterPerCandidate ==
    [][ /\ UpsertStep =>
              Cardinality({k \in DOMAIN stats : stats'[k] = stats[k] + 1}) = 1
              /\ \A k \in DOMAIN stats : stats'[k] \in {stats[k], stats[k] + 1}
        /\ pc' \in {"deactivate", "summary", "commit", "done"} =>
              stats'.new_articles + stats'.updated_articles + stats'.errors = Len(articles')
      ]_vars

(* the loop has ended over two candidates, one counted as new and one as   *)
(* updated                                                                 *)
C28_Witness ==
    /\ pc = "deactivate"
    /\ Len(articles) = 2
    /\ stats.new_articles = 1 /\ stats.updated_articles = 1 /\ stats.errors = 0

----------------------------------------------------------------------------
(* session.get(url, timeout=30) through the adapter of create_session,     *)
(* followed by response.raise_for_status()                                 *)

MaxHops == 1   \* redirects a fetch follows

status_forcelist == {"429", "500", "502", "503", "504"}

(* How one HTTP attempt can end: a response, by its status (a 413 with or  *)
(* without a Retry-After header, a 301 with a Location), or no response.   *)
AttemptOutcomes ==
    {"200", "301", "404", "413", "413 Retry-After"} \cup status_forcelist
        \cup {"connection error", "read timeout"}

(* a retry policy that retries every response that is an error *)
Retried_AnyError(o) == o \notin {"200", "301"}

(* What Retry(total=3, status_forcelist=...) has the adapter try again     *)
(* while total is not used up: a response whose status is in               *)
(* status_forcelist, a 413 that carries Retry-After, and an attempt that   *)
(* failed to connect or to read (connect and read are not set, so only     *)
(* total limits them; GET is a retried method).                            *)
Retried(o) ==
    o \in status_forcelist \cup {"413 Retry-After", "connection error", "read timeout"}

(* What session.get and raise_for_status make of the attempt that comes    *)
(* after `made` attempts for the same url and `hops` redirects: "retry",   *)
(* "redirect" (a new request, with the retry count of the session again),  *)
(* "page", or "failed" (an exception, caught by the scraper's except).     *)
fetch_step(made, hops, o) ==
    IF Retried(o)
    THEN IF made + 1 > RetryTotal THEN "failed" ELSE "retry"
    ELSE IF o = "301" THEN (IF hops < MaxHops THEN "redirect" ELSE "failed")
    ELSE IF o = "200" THEN "page"
    ELSE "failed"

FetcherInit ==
    /\ now = 0
    /\ db = {}
    /\ classifier = "unset"
    /\ load_failed = FALSE
    /\ NoRun
    /\ call = [fn |-> "fetch"]
    /\ ret = {}

(* One HTTP attempt of the fetch: log holds the outcomes of the attempts   *)
(* for the url now requested, fetched the attempts made for each url that   *)
(* redirected.                                                             *)
Attempt ==
    /\ call.fn = "fetch"
    /\ ret = {}
    /\ \E o \in AttemptOutcomes :
         LET next == fetch_step(Len(log), Len(fetched), o)
         IN  /\ log' = IF next = "redirect" THEN <<>> ELSE Append(log, o)
             /\ fetched' = IF next = "redirect"
                           THEN Append(fetched, [attempts |-> Len(log) + 1])
                           ELSE fetched
             /\ ret' = IF next \in {"page", "failed"} THEN {next} ELSE {}
    /\ UNCHANGED <<now, db, tx, txStatus, conn, opened, pc, setup, classifier, load_failed, site,
                   articles, idx, stats, cutoff_date, last, sighted, call, runs>>

FetcherNext == Attempt

SpecFetcher == FetcherInit /\ [][FetcherNext]_vars

RECURSIVE AttemptsOf(_)
AttemptsOf(q) == IF q = <<>> THEN 0 ELSE Head(q).attempts + AttemptsOf(Tail(q))

(* an attempt for the url that the previous attempt was made for *)
RetryStep == call.fn = "fetch" /\ Len(log) >= 1 /\ Len(log') = Len(log) + 1

(* the fetch ends *)
FetchEnds == call.fn = "fetch" /\ ret = {} /\ ret' # {}

(* C25, as stated: one fetch makes at most 4 HTTP attempts; an attempt is  *)
(* retried only after a response with status 429, 500, 502, 503 or 504;    *)
(* every other failure, and a failure with the retries used up, ends the   *)
(* fetch with a failure.                                                   *)
C25_AsStated ==
    [][ /\ call.fn = "fetch" => AttemptsOf(fetched') + Len(log') <= RetryTotal + 1
        /\ RetryStep => log[Len(log)] \in {"429", "500", "502", "503", "504"}
        /\ FetchEnds => (ret' = {"page"} <=> log'[Len(log')] = "200")
      ]_vars

(* C25, amended: for each url it requests (the source's, and the target of *)
(* each redirect it follows) a fetch makes at most 4 HTTP attempts; an     *)
(* attempt is retried only after a response with status 429, 500, 502, 503 *)
(* or 504, a 413 response with a Retry-After header, or an attempt that    *)
(* failed to connect or timed out, and after each of these while fewer     *)
(* than 4 attempts were made; every other failure, and a failure with the  *)
(* retries used up, ends the fetch with a failure.                         *)
C25_RetryPolicy ==
    [][ /\ call.fn = "fetch" => Len(log') <= RetryTotal + 1
        /\ RetryStep =>
              log[Len(log)] \in {"429", "500", "502", "503", "504", "413 Retry-After",
                                 "connection error", "read timeout"}
        /\ (call.fn = "fetch" /\ ret = {} /\ Len(log') = Len(log) + 1) =>
              LET o == log'[Len(log')]
              IN  /\ ret' = {"page"} <=> o = "200"
                  /\ ret' = {} <=>
                        /\ Len(log') <= RetryTotal
                        /\ o \in {"429", "500", "502", "503", "504", "413 Retry-After",
                                   "connection error", "read timeout"}
                  /\ ret' \subseteq {"page", "failed"}
      ]_vars

(* a fetch that was retried three times, after a 503, after a connection   *)
(* error and after a 429, and failed on the fourth attempt                 *)
C25_Witness ==
    /\ call.fn = "fetch"
    /\ log = <<"503", "connection error", "429", "500">>
    /\ ret = {"failed"}

----------------------------------------------------------------------------
(* Two runs of run_news_pipeline that overlap: each has scraped its        *)
(* candidates and opened its connection (line 587); the statements of a    *)
(* run execute in the one transaction of its connection, under the         *)
(* store's default isolation (a statement sees what is committed when it   *)
(* starts and what its own transaction wrote).                             *)

(* The candidates the two runs can both sight, of two urls no row holds. *)
Sightings ==
    {c \in Candidates(1, 0) \cup Candidates(2, 0) : c.title = "t1" /\ c.publish_date = 0}

Batches ==
    {q \in SeqsUpTo(Sightings, Cardinality(Sightings)) :
        /\ q # <<>>
        /\ \A i, j \in 1..Len(q) : q[i].url = q[j].url => i = j}

Other(r) == 3 - r

(* the transaction of run r has not ended *)
Open(r) == runs[r].pc # "done"

(* The rows run r's statements see. *)
View(r) ==
    runs[r].writes \cup {x \in db : \A w \in runs[r].writes : w.id # x.id}

(* A write of a row with url u waits while the other run's open            *)
(* transaction holds an uncommitted write of a row with that url.          *)
Waits(r, u) == Open(Other(r)) /\ \E w \in runs[Other(r)].writes : w.url = u

OverlapInit ==
    /\ now = 0
    /\ db = {}
    /\ classifier = "loaded"
    /\ load_failed = FALSE
    /\ tx = {} /\ txStatus = "none" /\ conn = "none" /\ opened = 0 /\ pc = "idle"
    /\ setup = "ok" /\ site = 1 /\ articles = <<>> /\ idx = 1 /\ stats = NoStats
    /\ cutoff_date = {} /\ fetched = <<>> /\ log = <<>> /\ last = NoLast /\ sighted = {}
    /\ call = [fn |-> "run_news_pipeline"]
    /\ ret = {}
    /\ runs \in {<<[pc |-> "select", articles |-> q1, idx |-> 1, existing |-> FALSE,
                    writes |-> {}, st |-> "idle", rejected |-> {}, stats |-> NoStats],
                   [pc |-> "select", articles |-> q2, idx |-> 1, existing |-> FALSE,
                    writes |-> {}, st |-> "idle", rejected |-> {}, stats |-> NoStats]>> :
                    q1 \in Batches, q2 \in Batches}

(* the loop goes on to the next candidate, or ends *)
Advance(run, isNew) ==
    [run EXCEPT !.idx = @ + 1,
                !.pc = IF run.idx = Len(run.articles) THEN "deactivate" ELSE "select",
                !.stats = IF isNew THEN [@ EXCEPT !.new_articles = @ + 1]
                          ELSE [@ EXCEPT !.updated_articles = @ + 1]]

(* upsert_article, its SELECT: on an aborted transaction it raises and the *)
(* call returns False                                                      *)
Lookup(r) ==
    /\ call.fn = "run_news_pipeline"
    /\ runs[r].pc = "select"
    /\ LET run == runs[r]
           a   == run.articles[run.idx]
       IN  runs' = [runs EXCEPT ![r] =
                      IF run.st = "aborted" THEN Advance(run, FALSE)
                      ELSE [run EXCEPT !.pc = "write", !.st = "intrans",
                                       !.existing = SelectByUrl(View(r), a.url) # {}]]
    /\ UNCHANGED <<now, db, tx, txStatus, conn, opened, pc, setup, classifier, load_failed, site,
                   articles, idx, stats, cutoff_date, fetched, log, last, sighted, call, ret>>

(* upsert_article, its UPDATE or INSERT.  The INSERT of a url that a       *)
(* committed row holds is rejected by url UNIQUE, which aborts the         *)
(* transaction; the exception is swallowed and the call returns False.     *)
Write(r) ==
    /\ call.fn = "run_news_pipeline"
    /\ runs[r].pc = "write"
    /\ LET run      == runs[r]
           a        == run.articles[run.idx]
           category == categorize_article(classifier, a.title, a.content)
           all      == db \cup runs[1].writes \cup runs[2].writes
       IN  /\ ~Waits(r, a.url)
           /\ runs' = [runs EXCEPT ![r] =
                 IF run.existing
                 THEN Advance([run EXCEPT !.writes =
                                 {w \in @ : w.url # a.url}
                                   \cup {UpdateRow(x, a, category, now) :
                                            x \in SelectByUrl(View(r), a.url)}],
                              FALSE)
                 ELSE IF UrlFree(View(r), a.url) /\ UrlFree(db, a.url)
                 THEN Advance([run EXCEPT !.writes = @ \cup {InsertRow(all, a, category, now)}],
                              TRUE)
                 ELSE Advance([run EXCEPT !.st = "aborted", !.rejected = @ \cup {a.url}],
                              FALSE)]
    /\ UNCHANGED <<now, db, tx, txStatus, conn, opened, pc, setup, classifier, load_failed, site,
                   articles, idx, stats, cutoff_date, fetched, log, last, sighted, call, ret>>

(* Both runs wait for each other's transaction: the store ends the wait of *)
(* one of them with an error, which aborts its transaction.                *)
Deadlock(r) ==
    /\ call.fn = "run_news_pipeline"
    /\ runs[1].pc = "write" /\ runs[2].pc = "write"
    /\ Waits(1, runs[1].articles[runs[1].idx].url)
    /\ Waits(2, runs[2].articles[runs[2].idx].url)
    /\ LET run == runs[r]
       IN  runs' = [runs EXCEPT ![r] =
                      Advance([run EXCEPT !.st = "aborted",
                                          !.rejected = @ \cup {run.articles[run.idx].url}],
                              FALSE)]
    /\ UNCHANGED <<now, db, tx, txStatus, conn, opened, pc, setup, classifier, load_failed, site,
                   articles, idx, stats, cutoff_date, fetched, log, last, sighted, call, ret>>

(* deactivate_old_articles and get_summary_stats of run r *)
DeactivateOverlap(r) ==
    /\ call.fn = "run_news_pipeline"
    /\ runs[r].pc = "deactivate"
    /\ LET run == runs[r]
           res == deactivate_old_articles(View(r), run.st, now)
       IN  /\ \A x \in res.rows \ View(r) : ~Waits(r, x.url)
           /\ runs' = [runs EXCEPT ![r] =
                 [run EXCEPT !.pc = "commit", !.st = res.st,
                             !.writes = {w \in @ : \A x \in res.rows \ View(r) : x.id # w.id}
                                          \cup (res.rows \ View(r))]]
    /\ UNCHANGED <<now, db, tx, txStatus, conn, opened, pc, setup, classifier, load_failed, site,
                   articles, idx, stats, cutoff_date, fetched, log, last, sighted, call, ret>>

(* conn.commit(); conn.close() of run r: the writes of the transaction     *)
(* become the committed rows, or are dropped when it was aborted           *)
CommitOverlap(r) ==
    /\ call.fn = "run_news_pipeline"
    /\ runs[r].pc = "commit"
    /\ LET run == runs[r]
       IN  /\ db' = IF run.st = "aborted" THEN db
                    ELSE run.writes \cup {x \in db : \A w \in run.writes : w.id # x.id}
           /\ runs' = [runs EXCEPT ![r] = [run EXCEPT !.pc = "done", !.writes = {}, !.st = "none"]]
    /\ UNCHANGED <<now, tx, txStatus, conn, opened, pc, setup, classifier, load_failed, site,
                   articles, idx, stats, cutoff_date, fetched, log, last, sighted, call, ret>>

OverlapNext ==
    \E r \in {1, 2} :
        \/ Lookup(r)
        \/ Write(r)
        \/ Deadlock(r)
        \/ DeactivateOverlap(r)
        \/ CommitOverlap(r)

SpecOverlap == OverlapInit /\ [][OverlapNext]_vars

(* C26, as stated: when two overlapping runs have both ended, the          *)
(* committed table holds at most one row for each url they sighted, and a  *)
(* run that had an insert rejected has a committed row for each of its     *)
(* other candidates.                                                       *)
C26_AsStated ==
    (call.fn = "run_news_pipeline" /\ ~Open(1) /\ ~Open(2)) =>
        /\ \A a \in Sightings : Cardinality(SelectByUrl(db, a.url)) <= 1
        /\ \A r \in {1, 2} : \A i \in 1..Len(runs[r].articles) :
              (runs[r].rejected # {} /\ runs[r].articles[i].url \notin runs[r].rejected) =>
                  SelectByUrl(db, runs[r].articles[i].url) # {}

====
